---- MODULE Spec2Model ----
(***************************************************************************)
(* Model of crates/mevi/src/tracer.rs: the ptrace supervisor loop           *)
(* (Tracer::run), the per-tracee syscall observer (Tracee::on_sys_exit),    *)
(* the remote syscall injector and uffd handoff (Tracee::make_uffd), the    *)
(* bounded event channel and its consumer.                                  *)
(*                                                                          *)
(* The kernel is the environment: it decides which tracee stops next, with  *)
(* which wait status, which registers a stop shows and what every ptrace    *)
(* request and injected syscall returns.  A tracee's stop and the waitpid   *)
(* that reports it are one step.  The tracer is split only where it can     *)
(* block: waitpid, a send on the bounded channel, the wait for a dropped    *)
(* completion token.                                                        *)
(*                                                                          *)
(* Machine words are WordBits wide instead of 64, the `as i32` casts keep   *)
(* NarrowBits; addresses and errno values are chosen to fit.                *)
(***************************************************************************)
EXTENDS Integers, Sequences, FiniteSets, TLC

\* ------------------------------------------------------------------ bounds
NumTracees == 2
ChanCap == 1
MaxMaps == 1
WordBits == 7

Tids == 1..NumTracees
RootTid == 1

\* ------------------------------------------------------- machine arithmetic
Modulus == 2^WordBits
NarrowBits == WordBits - 1

\* the two's-complement image of -e in a register
Neg(e) == Modulus - e

\* `x as i32`: keep the low bits, read them as signed
AsI32(x) ==
    LET lo == x % (2^NarrowBits)
    IN  IF lo >= 2^(NarrowBits - 1) THEN lo - 2^NarrowBits ELSE lo

\* usize addition: the mathematical sum, and whether it leaves the word
Overflows(a, b) == a + b >= Modulus
WrapAdd(a, b) == (a + b) % Modulus

\* ---------------------------------------------------------------- syscalls
SYS_rseq == "rseq"
SYS_set_robust_list == "set_robust_list"
SYS_rt_sigprocmask == "rt_sigprocmask"
SYS_execve == "execve"
SYS_execveat == "execveat"
SYS_mmap == "mmap"
SYS_brk == "brk"
SYS_other == "other"
SYS_userfaultfd == "userfaultfd"
SYS_ioctl == "ioctl"
SYS_socket == "socket"
SYS_connect == "connect"
SYS_write == "write"
SYS_sendmsg == "sendmsg"
SYS_close == "close"
SYS_munmap == "munmap"

\* the libc errno values the model uses
ErrNOMEM == Neg(12)
ErrINVAL == Neg(22)
ErrNOENT == Neg(2)
ErrNOSYS == Neg(38)
\* (void *) -1
MAP_FAILED == Modulus - 1

\* addresses the kernel hands out
BrkVals == {16, 20, 24}
MmapAddrs == {32}
StagingAddrs == {40}
\* the staging page, 0x1000 bytes in the source
PageLen == 4
\* the lengths a tracee asks mmap for; the larger one carries an errno
\* return past the end of the word
MmapLens == {0, 16}
\* the anonymous regions /proc/<pid>/maps can list, in address order
AnonRegion(i) == <<40 + 8 * i, 44 + 8 * i>>

\* MapFlags::from_bits: None when a bit outside the known flags is set
UnknownFlagBit == 2^(WordBits - 1)
FlagsFromBits(bits) == IF bits >= UnknownFlagBit THEN "None" ELSE "Some"

\* ---------------------------------------------------------------- registers
NoRegs == [orig_rax |-> "", rax |-> 0, rdi |-> 0, rsi |-> 0, rdx |-> 0,
           r10 |-> 0, r8 |-> 0, r9 |-> 0, rip |-> 0]

Regs(nr, rdi, rsi, rdx, r10, r8, rax) ==
    [orig_rax |-> nr, rax |-> rax, rdi |-> rdi, rsi |-> rsi, rdx |-> rdx,
     r10 |-> r10, r8 |-> r8, r9 |-> 0, rip |-> 8]

\* what the kernel returns for a tracee's own mmap: len 0 is EINVAL, a
\* mapping that cannot be made is ENOMEM, otherwise the hint or a fresh address
MmapReturns(addr, len) ==
    IF len = 0 THEN {ErrINVAL}
    ELSE (IF addr = 0 THEN MmapAddrs ELSE {addr}) \cup {ErrNOMEM}

\* the mmap calls of a tracee, as <<addr, len, fd, flags>>: with and without
\* a hint, of length 0 and not, on fd -1, on a real fd and on a register whose
\* low half alone is -1, and one with a flag bit from_bits does not know
MmapCalls ==
         (({0} \cup MmapAddrs) \X MmapLens \X {Modulus - 1, 3} \X {34})
    \cup {<<0, 16, 2^NarrowBits - 1, 34>>, <<0, 16, Modulus - 1, 34 + UnknownFlagBit>>}

\* the register files a syscall-exit stop can show
ExitRegs ==
       { Regs(nr, 0, 0, 0, 0, 0, 0) :
            nr \in {SYS_rseq, SYS_set_robust_list, SYS_rt_sigprocmask, SYS_other} }
  \cup { Regs(nr, 0, 0, 0, 0, 0, ret) :
            nr \in {SYS_execve, SYS_execveat}, ret \in {0, ErrNOENT} }
  \cup UNION { { Regs(SYS_mmap, c[1], c[2], 3, c[4], c[3], ret) :
                    ret \in MmapReturns(c[1], c[2]) } : c \in MmapCalls }
  \cup { Regs(SYS_brk, arg, 0, 0, 0, 0, ret) :
            arg \in {0, 24}, ret \in BrkVals }

\* the root tracee goes through all of them; its descendants through a
\* harmless syscall, a too-early one and anonymous mmaps
ChildExitRegs ==
    { r \in ExitRegs :
        \/ r.orig_rax \in {SYS_other, SYS_rseq}
        \/ r.orig_rax = SYS_mmap /\ r.rdi = 0 /\ r.rsi # 0 /\ r.r8 = Modulus - 1
                                 /\ r.r10 = 34 }

ExitRegsOf(t) == IF t = RootTid THEN ExitRegs ELSE ChildExitRegs

\* at a syscall-entry stop rax holds -ENOSYS
EntryRegsOf(t) == { [r EXCEPT !.rax = ErrNOSYS] : r \in ExitRegsOf(t) }

\* what getregs shows at a syscall stop of t, inside being the kernel's view
\* of the tracee before the stop
StopRegs(t, inside) == IF inside THEN ExitRegsOf(t) ELSE EntryRegsOf(t)

\* ------------------------------------------------------------------- state
VARIABLES
    pc,             \* where the tracer thread is
    cur,            \* the tracee whose stop is being handled (0: none)
    err,            \* how the tracer aborted, if it did
    tracees,        \* Tracer.tracees: TraceeId -> Tracee
    tx,             \* the bounded channel to the consumer
    held,           \* the tracee whose MapGuard the consumer holds (0: none)
    kstate,         \* kernel: what each tracee is doing
    kphase,         \* kernel: TRUE while the tracee is inside a syscall
    resume_sig,     \* kernel: the signal handed over by the last ptrace::syscall
    kregs,          \* kernel: register file of the tracee being handled
    stagingMapped,  \* kernel: the injector's staging page is mapped
    saved_regs,     \* on_sys_exit: regs / make_uffd: saved_regs
    step,           \* make_uffd: index of the injected call
    loc,            \* make_uffd: staging_area, raw_uffd, sock_fd
    maps,           \* make_uffd: regions still to be enumerated
    mapped,         \* the Option<Mapped> that on_sys_exit returned
    before,         \* the Tracee as it was when on_sys_exit was entered
    emitted,        \* events sent while handling the current stop
    injLog,         \* injected syscalls issued by the current make_uffd
    injRuns,        \* make_uffd runs of a tracee since its last Execve event
    execved,        \* an Execve event was sent and no uffd installed since
    lastGrowEnd,    \* end of a tracee's last brk-growth event since Execve
    shrunk,         \* a brk exit lowered heap_range.end since that event
    prevBrk0,       \* how a tracee's previous syscall exit went, if brk(0)
    parity,         \* syscall stops the supervisor loop saw, modulo 2
    stop_sig        \* the signal of the stop handled last, if a signal stop

ctlVars == <<pc, cur, err>>
chanVars == <<tx, held>>
kernVars == <<kstate, kphase, resume_sig, kregs, stagingMapped>>
injVars == <<saved_regs, step, loc, maps, injLog>>
exitVars == <<mapped, before, emitted>>
histVars == <<injRuns, execved, lastGrowEnd, shrunk, prevBrk0, parity, stop_sig>>
vars == <<ctlVars, tracees, chanVars, kernVars, injVars, exitVars, histVars>>

None == <<>>

\* Tracee { was_in_syscall: false, tid, heap_range: None, uffd: None }
NewTracee == [known |-> TRUE, was_in_syscall |-> FALSE,
              heap_range |-> None, uffd |-> FALSE]
\* no entry in the HashMap
NoTracee == [known |-> FALSE, was_in_syscall |-> FALSE,
             heap_range |-> None, uffd |-> FALSE]

\* self.tracees.entry(tid).or_insert_with(...)
Entry(t) == IF tracees[t].known THEN tracees[t] ELSE NewTracee

\* the tracer thread is alive
NoCrash == [why |-> "", at |-> "", tid |-> 0, step |-> 0, injLog |-> <<>>,
            uffd |-> FALSE]

\* Ok(None) of on_sys_exit
NoMapped == [range |-> <<>>, resident |-> ""]

NoLoc == [staging_area |-> 0, raw_uffd |-> 0, sock_fd |-> 0]

MapEvent(t, range, state, guard) ==
    [tid |-> t, kind |-> "Map", range |-> range, state |-> state, guard |-> guard]
ExecveEvent(t) ==
    [tid |-> t, kind |-> "Execve", range |-> None, state |-> "", guard |-> FALSE]
ExitEvent(t) ==
    [tid |-> t, kind |-> "Exit", range |-> None, state |-> "", guard |-> FALSE]

Init ==
    /\ pc = "wait"
    /\ cur = 0
    /\ err = NoCrash
    /\ tracees = [t \in Tids |-> NoTracee]
    /\ tx = <<>>
    /\ held = 0
    /\ kstate = [t \in Tids |-> IF t = RootTid THEN "running" ELSE "unborn"]
    /\ kphase = [t \in Tids |-> FALSE]
    /\ resume_sig = "None"
    /\ kregs = NoRegs
    /\ stagingMapped = FALSE
    /\ saved_regs = NoRegs
    /\ step = 0
    /\ loc = NoLoc
    /\ maps = <<>>
    /\ mapped = NoMapped
    /\ before = NoTracee
    /\ emitted = <<>>
    /\ injLog = <<>>
    /\ injRuns = [t \in Tids |-> 0]
    /\ execved = [t \in Tids |-> FALSE]
    /\ lastGrowEnd = [t \in Tids |-> 0]
    /\ shrunk = [t \in Tids |-> FALSE]
    /\ prevBrk0 = [t \in Tids |-> "no"]
    /\ parity = [t \in Tids |-> 0]
    /\ stop_sig = ""

\* ------------------------------------------------- on_sys_exit, the pure part
\* (mutant) execve is not among the syscalls that are too early
TooEarlyWithoutExecve(nr) ==
    nr \in {SYS_rseq, SYS_set_robust_list, SYS_rt_sigprocmask}

\* the syscalls after which installing the uffd is not attempted
TooEarly(nr) ==
    nr \in {SYS_rseq, SYS_set_robust_list, SYS_rt_sigprocmask, SYS_execve}

\* (mutant) the uffd check is lost: every exit that is not too early installs
NeedsUffdUnchecked(tracee, regs) == ~TooEarly(regs.orig_rax)

\* `if self.uffd.is_none()` and the match on the syscall number
NeedsUffd(tracee, regs) == ~tracee.uffd /\ ~TooEarly(regs.orig_rax)

\* (mutant) either condition is enough
IsAnonMmapEither(regs) == AsI32(regs.r8) = -1 \/ regs.rdi = 0

\* `fd == -1 && addr_in == 0`, fd being `regs.r8 as i32`
IsAnonMmap(regs) == AsI32(regs.r8) = -1 /\ regs.rdi = 0

Result(tracee, out, m, why) ==
    [tracee |-> tracee, out |-> out, mapped |-> m, err |-> why]

\* (mutant) execve forgets the heap but keeps the uffd flag
ExecveArmKeepsUffd(tracee) ==
    { Result([tracee EXCEPT !.heap_range = None], "execve", NoMapped, "") }

\* the execve | execveat arm
ExecveArm(tracee) ==
    { Result([tracee EXCEPT !.heap_range = None, !.uffd = FALSE], "execve", NoMapped, "") }

\* (mutant) the region is taken from the address hint, not from the return value
MmapArmFromAddr(tracee, regs) ==
    IF FlagsFromBits(regs.r10) = "None" \/ FlagsFromBits(regs.rdx) = "None"
    THEN { Result(tracee, "panic", NoMapped, "from_bits unwrap") }
    ELSE IF IsAnonMmap(regs)
    THEN { Result(tracee, "mapped",
                  [range |-> <<regs.rdi, WrapAdd(regs.rdi, regs.rsi)>>,
                   resident |-> "NotResident"], "") }
    ELSE { Result(tracee, "none", NoMapped, "") }

\* the mmap arm; `ret + len` panics on overflow in a build with overflow
\* checks and wraps in one without
MmapArm(tracee, regs) ==
    IF FlagsFromBits(regs.r10) = "None" \/ FlagsFromBits(regs.rdx) = "None"
    THEN { Result(tracee, "panic", NoMapped, "from_bits unwrap") }
    ELSE IF IsAnonMmap(regs)
    THEN LET wrapped ==
                 Result(tracee, "mapped",
                        [range |-> <<regs.rax, WrapAdd(regs.rax, regs.rsi)>>,
                         resident |-> "NotResident"], "")
         IN  IF Overflows(regs.rax, regs.rsi)
             THEN { wrapped, Result(tracee, "panic", NoMapped, "add overflow") }
             ELSE { wrapped }
    ELSE { Result(tracee, "none", NoMapped, "") }

\* (mutant) a brk(0) overwrites a heap_range that is already known
BrkArmOverwrites(tracee, regs) ==
    IF regs.rdi = 0
    THEN { Result([tracee EXCEPT !.heap_range = <<regs.rax, regs.rax>>],
                  "none", NoMapped, "") }
    ELSE IF tracee.heap_range # None
    THEN LET old_top == tracee.heap_range[2]
             moved == [tracee EXCEPT !.heap_range[2] = regs.rax]
         IN  IF regs.rax > old_top
             THEN { Result(moved, "mapped",
                           [range |-> <<old_top, regs.rax>>,
                            resident |-> "Resident"], "") }
             ELSE { Result(moved, "none", NoMapped, "") }
    ELSE { Result(tracee, "none", NoMapped, "") }

\* (mutant) a growth is reported from the start of the heap, not from old_top
BrkArmFromStart(tracee, regs) ==
    IF regs.rdi = 0
    THEN IF tracee.heap_range = None
         THEN { Result([tracee EXCEPT !.heap_range = <<regs.rax, regs.rax>>],
                       "none", NoMapped, "") }
         ELSE { Result(tracee, "none", NoMapped, "") }
    ELSE IF tracee.heap_range # None
    THEN LET old_top == tracee.heap_range[2]
             moved == [tracee EXCEPT !.heap_range[2] = regs.rax]
         IN  IF regs.rax > old_top
             THEN { Result(moved, "mapped",
                           [range |-> <<tracee.heap_range[1], regs.rax>>,
                            resident |-> "Resident"], "") }
             ELSE { Result(moved, "none", NoMapped, "") }
    ELSE { Result(tracee, "none", NoMapped, "") }

\* (mutant) heap_range.end is moved only when the heap grows
BrkArmIgnoresShrink(tracee, regs) ==
    IF regs.rdi = 0
    THEN IF tracee.heap_range = None
         THEN { Result([tracee EXCEPT !.heap_range = <<regs.rax, regs.rax>>],
                       "none", NoMapped, "") }
         ELSE { Result(tracee, "none", NoMapped, "") }
    ELSE IF tracee.heap_range # None
    THEN LET old_top == tracee.heap_range[2]
             moved == [tracee EXCEPT !.heap_range[2] = regs.rax]
         IN  IF regs.rax > old_top
             THEN { Result(moved, "mapped",
                           [range |-> <<old_top, regs.rax>>,
                            resident |-> "Resident"], "") }
             ELSE { Result(tracee, "none", NoMapped, "") }
    ELSE { Result(tracee, "none", NoMapped, "") }

\* the brk arm
BrkArm(tracee, regs) ==
    IF regs.rdi = 0
    THEN IF tracee.heap_range = None
         THEN { Result([tracee EXCEPT !.heap_range = <<regs.rax, regs.rax>>],
                       "none", NoMapped, "") }
         ELSE { Result(tracee, "none", NoMapped, "") }
    ELSE IF tracee.heap_range # None
    THEN LET old_top == tracee.heap_range[2]
             moved == [tracee EXCEPT !.heap_range[2] = regs.rax]
         IN  IF regs.rax > old_top
             THEN { Result(moved, "mapped",
                           [range |-> <<old_top, regs.rax>>,
                            resident |-> "Resident"], "") }
             ELSE { Result(moved, "none", NoMapped, "") }
    ELSE { Result(tracee, "none", NoMapped, "") }

\* `match regs.orig_rax as i64`: the outcomes of the second half of on_sys_exit
OnSysExitMatch(tracee, regs) ==
    CASE regs.orig_rax \in {SYS_execve, SYS_execveat} -> ExecveArm(tracee)
      [] regs.orig_rax = SYS_mmap -> MmapArm(tracee, regs)
      [] regs.orig_rax = SYS_brk -> BrkArm(tracee, regs)
      [] OTHER -> { Result(tracee, "none", NoMapped, "") }

\* ------------------------------------------------------------ the injector
\* (mutant) the descriptor is sent before the pid is written
InjCallsSendFirst == <<SYS_mmap, SYS_userfaultfd, SYS_ioctl, SYS_socket,
                       SYS_connect, SYS_sendmsg, SYS_write, SYS_close,
                       SYS_close, SYS_munmap>>

InjCalls == <<SYS_mmap, SYS_userfaultfd, SYS_ioctl, SYS_socket, SYS_connect,
              SYS_write, SYS_sendmsg, SYS_close, SYS_close, SYS_munmap>>

\* the arguments of the k-th injected call
InjArgs(k, l) ==
    CASE k = 1 -> <<0, PageLen, 3, 34, Modulus - 1, 0>>
      [] k = 2 -> <<0>>
      [] k = 3 -> <<l.raw_uffd, 63, l.staging_area>>
      [] k = 4 -> <<1, 1, 0>>
      [] k = 5 -> <<l.sock_fd, l.staging_area, 17>>
      [] k = 6 -> <<l.sock_fd, l.staging_area, 8>>
      [] k = 7 -> <<l.sock_fd, l.staging_area, 0>>
      [] k = 8 -> <<l.sock_fd>>
      [] k = 9 -> <<l.raw_uffd>>
      [] OTHER -> <<l.staging_area, PageLen>>

Arg(args, i, old) == IF i <= Len(args) THEN args[i] ELSE old

\* invoke: call_regs = saved_regs with rax, rip and the argument registers patched
CallRegs(saved, nr, args) ==
    [saved EXCEPT !.orig_rax = nr,
                  !.rip = (saved.rip + Modulus - 2) % Modulus,
                  !.rdi = Arg(args, 1, saved.rdi),
                  !.rsi = Arg(args, 2, saved.rsi),
                  !.rdx = Arg(args, 3, saved.rdx),
                  !.r10 = Arg(args, 4, saved.r10),
                  !.r8 = Arg(args, 5, saved.r8),
                  !.r9 = Arg(args, 6, saved.r9)]

\* what the kernel can return for the k-th injected call
InjReturns(k) ==
    CASE k = 1 -> StagingAddrs \cup {ErrNOMEM, MAP_FAILED}
      [] k = 2 -> {3, ErrNOMEM}
      [] k = 4 -> {4, ErrNOMEM}
      [] k = 6 -> {8, ErrINVAL}
      [] k = 7 -> {4, ErrINVAL}
      [] k = 5 -> {0, ErrNOENT}
      [] k = 10 -> {0, ErrNOMEM}
      [] OTHER -> {0, ErrINVAL}

\* the calls whose return value make_uffd checks, and how
InjRetFatal(k, ret) ==
    CASE k = 1 -> ret = MAP_FAILED
      [] k \in 2..7 -> AsI32(ret) < 0
      [] OTHER -> FALSE

\* the calls before which words are poked into the staging area
PokesBefore(k) == k \in {3, 5, 6, 7}

\* the locals an injected call's return value is bound to
BindRet(l, k, ret) ==
    CASE k = 1 -> [l EXCEPT !.staging_area = ret]
      [] k = 2 -> [l EXCEPT !.raw_uffd = AsI32(ret)]
      [] k = 4 -> [l EXCEPT !.sock_fd = AsI32(ret)]
      [] OTHER -> l

\* ------------------------------------------------------------- the channel
\* what a ptrace request returns: Ok, ESRCH when the tracee was killed in the
\* meantime, or another errno.  Requests fail on the root tracee only.
PtraceOutcomes == {"ok", "ESRCH", "EOTHER"}
OutcomesOf(t) == IF t = RootTid THEN PtraceOutcomes ELSE {"ok"}
Signals == {"SIGTRAP", "SIGSTOP", "SIGUSR1"}

\* SyncSender::send returns once the event is in the buffer
CanSend == Len(tx) < ChanCap

\* the tracees with a MapGuard that has not been dropped: in an event still
\* in the channel, or in the consumer's hands
Guarded == {tx[i].tid : i \in {j \in 1..Len(tx) : tx[j].guard}}
           \cup (IF held = 0 THEN {} ELSE {held})

\* (mutant) the supervisor does not wait for the token
GuardNotAwaited == TRUE

\* rx.recv() on the token's channel returns once the MapGuard is gone
GuardDropped == Guarded = {}

\* ------------------------------------------------------ kernel bookkeeping
\* a tracee after ptrace(PTRACE_SYSCALL): running again, gone (ESRCH: killed
\* while it was stopped), or still stopped when the request failed otherwise
Resumed(t, o) ==
    [kstate EXCEPT ![t] = CASE o = "ok" -> "running"
                            [] o = "ESRCH" -> "zombie"
                            [] OTHER -> "stopped"]

\* (mutant) every signal is passed on
ForwardedSignalAll(sig) == sig

\* the signal the supervisor passes to ptrace::syscall at a signal stop
ForwardedSignal(sig) == IF sig \in {"SIGTRAP", "SIGSTOP"} THEN "None" ELSE sig

Toggle(f, t) == [f EXCEPT ![t] = ~f[t]]
Flip(f, t) == [f EXCEPT ![t] = 1 - f[t]]

\* the anonymous regions get_process_maps lists: the first n
AnonMaps(n) == [i \in 1..n |-> AnonRegion(i)]

\* The tracer thread dies: a panic, or an Err that run() returns into the
\* unwrap of tracer::run.  Its Tracer value (the registry, its end of the
\* channel) and its locals are dropped, and the kernel detaches its tracees;
\* err keeps what the abort looked like.  Events already in the channel stay.
Crash(why, t, uffd) ==
    /\ pc' = "aborted"
    /\ err' = [why |-> why, at |-> pc, tid |-> t, step |-> step,
               injLog |-> injLog, uffd |-> uffd]
    /\ cur' = 0
    /\ tracees' = [x \in Tids |-> NoTracee]
    /\ kstate' = [x \in Tids |-> IF kstate[x] \in {"unborn", "reaped"}
                                  THEN kstate[x] ELSE "detached"]
    /\ kphase' = [x \in Tids |-> FALSE]
    /\ resume_sig' = "None"
    /\ kregs' = NoRegs
    /\ stagingMapped' = FALSE
    /\ saved_regs' = NoRegs
    /\ step' = 0
    /\ loc' = NoLoc
    /\ maps' = <<>>
    /\ injLog' = <<>>
    /\ mapped' = NoMapped
    /\ before' = NoTracee
    /\ emitted' = <<>>
    /\ injRuns' = [x \in Tids |-> 0]
    /\ execved' = [x \in Tids |-> FALSE]
    /\ lastGrowEnd' = [x \in Tids |-> 0]
    /\ shrunk' = [x \in Tids |-> FALSE]
    /\ prevBrk0' = [x \in Tids |-> "no"]
    /\ parity' = [x \in Tids |-> 0]
    /\ stop_sig' = ""
    /\ UNCHANGED chanVars

\* ------------------------------------------------- Tracer::run, one stop each
\* WaitStatus::Stopped(pid, sig); o is what ptrace::syscall returns
SignalStop(t, sig, o) ==
    /\ pc = "wait"
    /\ kstate[t] = "running"
    /\ IF o = "ok"
       THEN /\ resume_sig' = ForwardedSignal(sig)
            /\ stop_sig' = sig
            /\ UNCHANGED <<ctlVars, tracees, chanVars, kstate, kphase, kregs,
                           stagingMapped, injVars, exitVars, injRuns, execved,
                           lastGrowEnd, shrunk, prevBrk0, parity>>
       ELSE Crash(o, t, tracees[t].uffd)

\* WaitStatus::PtraceEvent(pid, sig, event): t is inside clone/fork/vfork and
\* the child c starts being traced
EventStop(t, c, o) ==
    /\ pc = "wait"
    /\ kstate[t] = "running"
    /\ kphase[t]
    /\ c # t
    /\ kstate[c] = "unborn"
    /\ IF o = "ok"
       THEN /\ kstate' = [kstate EXCEPT ![c] = "running"]
            /\ resume_sig' = "None"
            /\ stop_sig' = ""
            /\ UNCHANGED <<ctlVars, tracees, chanVars, kphase, kregs,
                           stagingMapped, injVars, exitVars, injRuns, execved,
                           lastGrowEnd, shrunk, prevBrk0, parity>>
       ELSE Crash(o, t, tracees[t].uffd)

\* WaitStatus::Exited / WaitStatus::Signaled: the tracee is reaped (a
\* descendant's id is free again) and an Exit event is to be sent
ExitStatus(t, how) ==
    /\ pc = "wait"
    /\ \/ kstate[t] = "running"
       \/ how = "Signaled" /\ kstate[t] \in {"zombie", "stopped"}
    /\ kstate' = [kstate EXCEPT ![t] = IF t = RootTid THEN "reaped" ELSE "unborn"]
    /\ kphase' = [kphase EXCEPT ![t] = FALSE]
    /\ pc' = "send_exit"
    /\ cur' = t
    /\ stop_sig' = ""
    /\ UNCHANGED <<err, tracees, chanVars, resume_sig, kregs, stagingMapped,
                   injVars, exitVars, injRuns, execved, lastGrowEnd, shrunk,
                   prevBrk0, parity>>

\* self.tx.send(Exit).unwrap()
SendExit ==
    /\ pc = "send_exit"
    /\ CanSend
    /\ tx' = Append(tx, ExitEvent(cur))
    /\ pc' = "wait"
    /\ cur' = 0
    /\ UNCHANGED <<err, tracees, held, kernVars, injVars, exitVars, histVars>>

\* (mutant) the loop ends at a wait whether or not children remain
NoMoreChildrenEarly ==
    /\ pc = "wait"
    /\ pc' = "exited"
    /\ UNCHANGED <<cur, err, tracees, chanVars, kernVars, injVars, exitVars,
                   histVars>>

\* waitpid fails with ECHILD: std::process::exit(0)
NoMoreChildren ==
    /\ pc = "wait"
    /\ \A t \in Tids : kstate[t] \in {"unborn", "reaped"}
    /\ pc' = "exited"
    /\ UNCHANGED <<cur, err, tracees, chanVars, kernVars, injVars, exitVars,
                   histVars>>

\* (mutant) the exit branch does not clear the flag
NextWasInSyscallStuck(was) == TRUE

\* the flag after a syscall stop that found it at was
NextWasInSyscall(was) == ~was

\* WaitStatus::PtraceSyscall(pid) with was_in_syscall false
SysEnterStop(t, o) ==
    /\ pc = "wait"
    /\ kstate[t] = "running"
    /\ ~Entry(t).was_in_syscall
    /\ IF o = "EOTHER"
       THEN Crash("ptrace::syscall failed", t, Entry(t).uffd)
       ELSE /\ tracees' = [tracees EXCEPT ![t] =
                             [Entry(t) EXCEPT !.was_in_syscall = NextWasInSyscall(@)]]
            /\ parity' = Flip(parity, t)
            /\ kphase' = Toggle(kphase, t)
            /\ kstate' = Resumed(t, o)
            /\ resume_sig' = "None"
            /\ stop_sig' = ""
            /\ UNCHANGED <<ctlVars, chanVars, kregs, stagingMapped, injVars,
                           exitVars, injRuns, execved, lastGrowEnd, shrunk,
                           prevBrk0>>

\* WaitStatus::PtraceSyscall(pid) with was_in_syscall true, up to the call of
\* make_uffd or the match on the syscall number; o is what getregs returns
SysExitStop(t, r, o) ==
    /\ pc = "wait"
    /\ kstate[t] = "running"
    /\ Entry(t).was_in_syscall
    /\ r \in StopRegs(t, kphase[t])
    /\ LET tracee == [Entry(t) EXCEPT !.was_in_syscall = NextWasInSyscall(@)]
       IN  IF o # "ok"
           THEN /\ r = CHOOSE x \in StopRegs(t, kphase[t]) : TRUE
                /\ Crash(o, t, tracee.uffd)
           ELSE /\ tracees' = [tracees EXCEPT ![t] = tracee]
                /\ parity' = Flip(parity, t)
                /\ kphase' = Toggle(kphase, t)
                /\ kstate' = [kstate EXCEPT ![t] = "stopped"]
                /\ cur' = t
                /\ kregs' = r
                /\ saved_regs' = r
                /\ before' = tracee
                /\ stop_sig' = ""
                /\ IF NeedsUffd(tracee, r)
                   THEN /\ pc' = "inj_enter"
                        /\ step' = 1
                        /\ injRuns' = [injRuns EXCEPT ![t] = IF @ < 2 THEN @ + 1 ELSE @]
                   ELSE /\ pc' = "observe"
                        /\ UNCHANGED <<step, injRuns>>
                /\ UNCHANGED <<err, chanVars, resume_sig, stagingMapped, loc,
                               maps, injLog, mapped, emitted, execved,
                               lastGrowEnd, shrunk, prevBrk0>>

\* ------------------------------------------------------- Tracee::make_uffd
\* (mutant) a sys_step that returns without the tracee having moved on
SysStepNoStop(inside) == inside

\* sys_step: the tracee runs to its next syscall stop, from outside a syscall
\* to the entry stop and from inside one to the exit stop
SysStep(inside) == ~inside

\* invoke, first half: the pokes that prepare the call, setregs(call_regs) and
\* the sys_step that takes the tracee to the entry stop of the injected call
InjEnter ==
    /\ pc = "inj_enter"
    /\ IF PokesBefore(step) /\ ~stagingMapped
       THEN Crash("ptrace::write failed", cur, tracees[cur].uffd)
       ELSE /\ kregs' = [CallRegs(saved_regs, InjCalls[step], InjArgs(step, loc))
                            EXCEPT !.rax = ErrNOSYS, !.rip = saved_regs.rip]
            /\ kphase' = [kphase EXCEPT ![cur] = SysStep(@)]
            /\ injLog' = Append(injLog, InjCalls[step])
            /\ resume_sig' = "None"
            /\ pc' = "inj_exit"
            /\ UNCHANGED <<cur, err, tracees, chanVars, kstate, stagingMapped,
                           saved_regs, step, loc, maps, exitVars, histVars>>

\* the staging page after the k-th injected call returned ret
StagingAfter(k, ret, was) ==
    CASE k = 1 -> ret \in StagingAddrs
      [] k = 10 /\ ret = 0 -> FALSE
      [] OTHER -> was

\* invoke, second half: the sys_step to the exit stop, getregs, the check of
\* the return value; after the last call uffd is set, the registers are put
\* back (o: what setregs returns) and the maps are read (n regions, -1: Err)
InjExit(ret, o, n) ==
    /\ pc = "inj_exit"
    /\ ret \in InjReturns(step)
    /\ IF InjRetFatal(step, ret)
       THEN /\ o = "ok" /\ n = 0
            /\ Crash("injected syscall failed", cur, tracees[cur].uffd)
       ELSE IF step < Len(InjCalls)
       THEN /\ o = "ok" /\ n = 0
            /\ kregs' = [kregs EXCEPT !.rax = ret]
            /\ kphase' = [kphase EXCEPT ![cur] = SysStep(@)]
            /\ stagingMapped' = StagingAfter(step, ret, stagingMapped)
            /\ step' = step + 1
            /\ loc' = BindRet(loc, step, ret)
            /\ pc' = "inj_enter"
            /\ UNCHANGED <<cur, err, tracees, chanVars, kstate, resume_sig,
                           saved_regs, maps, injLog, exitVars, histVars>>
       ELSE IF o # "ok"
       THEN n = 0 /\ Crash(o, cur, TRUE)
       ELSE IF n < 0
       THEN Crash("get_process_maps failed", cur, TRUE)
       ELSE /\ tracees' = [tracees EXCEPT ![cur].uffd = TRUE]
            /\ kregs' = saved_regs
            /\ kphase' = [kphase EXCEPT ![cur] = SysStep(@)]
            /\ stagingMapped' = StagingAfter(step, ret, stagingMapped)
            /\ maps' = AnonMaps(n)
            /\ execved' = [execved EXCEPT ![cur] = FALSE]
            /\ pc' = "enum"
            /\ UNCHANGED <<cur, err, chanVars, kstate, resume_sig, saved_regs,
                           step, loc, injLog, exitVars, injRuns, lastGrowEnd,
                           shrunk, prevBrk0, parity, stop_sig>>

\* a ptrace request or the waitpid inside sys_step fails, or the wait status is
\* not a syscall stop: the tracee was killed, or stopped for another reason
InjFail(why) ==
    /\ pc \in {"inj_enter", "inj_exit"}
    /\ Crash(why, cur, tracees[cur].uffd)

\* the initial enumeration: one Map event per anonymous region, no token
EnumSend ==
    /\ pc = "enum"
    /\ maps # <<>>
    /\ CanSend
    /\ LET ev == MapEvent(cur, Head(maps), "NotResident", FALSE)
       IN  /\ tx' = Append(tx, ev)
           /\ emitted' = Append(emitted, ev)
    /\ maps' = Tail(maps)
    /\ UNCHANGED <<ctlVars, tracees, held, kernVars, saved_regs, step, loc,
                   injLog, mapped, before, histVars>>

\* make_uffd returns Ok(())
EnumDone ==
    /\ pc = "enum"
    /\ maps = <<>>
    /\ pc' = "observe"
    /\ UNCHANGED <<cur, err, tracees, chanVars, kernVars, injVars, exitVars,
                   histVars>>

\* ----------------------------------------- on_sys_exit, the match, and after
\* heap_range.end was lowered after a growth event (grown: the end of that
\* event, 0 if there was none since the last execve)
ShrunkAfter(res, tracee, old, grown) ==
    CASE res.out = "execve" -> FALSE
      [] /\ grown # 0
         /\ tracee.heap_range # None
         /\ res.tracee.heap_range # None
         /\ res.tracee.heap_range[2] < tracee.heap_range[2] -> TRUE
      [] OTHER -> old

Observe ==
    /\ pc = "observe"
    /\ \E res \in OnSysExitMatch(tracees[cur], saved_regs) :
          IF res.out = "panic"
          THEN Crash(res.err, cur, tracees[cur].uffd)
          ELSE /\ tracees' = [tracees EXCEPT ![cur] = res.tracee]
               /\ mapped' = res.mapped
               /\ lastGrowEnd' = [lastGrowEnd EXCEPT
                                    ![cur] = IF res.out = "execve" THEN 0 ELSE @]
               /\ shrunk' = [shrunk EXCEPT
                               ![cur] = ShrunkAfter(res, tracees[cur], @, lastGrowEnd[cur])]
               /\ pc' = CASE res.out = "execve" -> "send_execve"
                          [] res.out = "mapped" -> "send_map"
                          [] OTHER -> "resume"
               /\ UNCHANGED <<cur, err, chanVars, kernVars, injVars, before,
                              emitted, injRuns, execved, prevBrk0, parity,
                              stop_sig>>

\* tx.send(Execve).unwrap(); return Ok(None)
SendExecve ==
    /\ pc = "send_execve"
    /\ CanSend
    /\ tx' = Append(tx, ExecveEvent(cur))
    /\ emitted' = Append(emitted, ExecveEvent(cur))
    /\ injRuns' = [injRuns EXCEPT ![cur] = 0]
    /\ execved' = [execved EXCEPT ![cur] = TRUE]
    /\ pc' = "resume"
    /\ UNCHANGED <<cur, err, tracees, held, kernVars, injVars, mapped, before,
                   lastGrowEnd, shrunk, prevBrk0, parity, stop_sig>>

\* self.tx.send(Map { range, state, _guard }).unwrap()
SendMap ==
    /\ pc = "send_map"
    /\ CanSend
    /\ LET ev == MapEvent(cur, mapped.range, mapped.resident, TRUE)
       IN  /\ tx' = Append(tx, ev)
           /\ emitted' = Append(emitted, ev)
    /\ IF mapped.resident = "Resident"
       THEN /\ lastGrowEnd' = [lastGrowEnd EXCEPT ![cur] = mapped.range[2]]
            /\ shrunk' = [shrunk EXCEPT ![cur] = FALSE]
       ELSE UNCHANGED <<lastGrowEnd, shrunk>>
    /\ pc' = "await_guard"
    /\ UNCHANGED <<cur, err, tracees, held, kernVars, injVars, mapped, before,
                   injRuns, execved, prevBrk0, parity, stop_sig>>

\* _ = rx.recv()
AwaitGuard ==
    /\ pc = "await_guard"
    /\ GuardDropped
    /\ pc' = "resume"
    /\ UNCHANGED <<cur, err, tracees, chanVars, kernVars, injVars, exitVars,
                   histVars>>

\* what the handling of a syscall exit leaves behind for the next one
Brk0Summary(regs, evs) ==
    IF regs.orig_rax = SYS_brk /\ regs.rdi = 0
    THEN IF \E i \in 1..Len(evs) : evs[i].kind = "Map" THEN "mapped" ELSE "quiet"
    ELSE "no"

\* ptrace::syscall(pid, None) at the end of the exit branch; its error is
\* looked at only to log ESRCH
Resume(o) ==
    /\ pc = "resume"
    /\ kstate' = Resumed(cur, o)
    /\ resume_sig' = "None"
    /\ prevBrk0' = [prevBrk0 EXCEPT ![cur] = Brk0Summary(saved_regs, emitted)]
    /\ pc' = "wait"
    /\ cur' = 0
    /\ kregs' = NoRegs
    /\ saved_regs' = NoRegs
    /\ stagingMapped' = FALSE
    /\ step' = 0
    /\ loc' = NoLoc
    /\ injLog' = <<>>
    /\ mapped' = NoMapped
    /\ before' = NoTracee
    /\ emitted' = <<>>
    /\ UNCHANGED <<err, tracees, chanVars, kphase, maps, injRuns, execved,
                   lastGrowEnd, shrunk, parity, stop_sig>>

\* a tracee that the dead tracer no longer traces runs on and exits unobserved
DetachedExit(t) ==
    /\ pc = "aborted"
    /\ kstate[t] = "detached"
    /\ kstate' = [kstate EXCEPT ![t] = IF t = RootTid THEN "reaped" ELSE "unborn"]
    /\ UNCHANGED <<ctlVars, tracees, chanVars, kphase, resume_sig, kregs,
                   stagingMapped, injVars, exitVars, histVars>>

\* ------------------------------------------------------------- the consumer
\* the consumer takes the next event; it is done with an event without a
\* MapGuard at once, and keeps a MapGuard until ConsumerDrop
ConsumerRecv ==
    /\ tx # <<>>
    /\ held = 0
    /\ held' = IF Head(tx).guard THEN Head(tx).tid ELSE 0
    /\ tx' = Tail(tx)
    /\ UNCHANGED <<ctlVars, tracees, kernVars, injVars, exitVars, histVars>>

\* the consumer is done with the event: the event and its MapGuard are dropped
ConsumerDrop ==
    /\ held # 0
    /\ held' = 0
    /\ UNCHANGED <<ctlVars, tracees, tx, kernVars, injVars, exitVars, histVars>>

Next ==
    \/ \E t \in Tids, sig \in Signals : \E o \in OutcomesOf(t) : SignalStop(t, sig, o)
    \/ \E t \in Tids, c \in Tids : \E o \in OutcomesOf(t) : EventStop(t, c, o)
    \/ \E t \in Tids, how \in {"Exited", "Signaled"} : ExitStatus(t, how)
    \/ SendExit
    \/ NoMoreChildren
    \/ \E t \in Tids : \E o \in OutcomesOf(t) : SysEnterStop(t, o)
    \/ \E t \in Tids : \E o \in OutcomesOf(t), r \in StopRegs(t, kphase[t]) :
          SysExitStop(t, r, o)
    \/ InjEnter
    \/ \E o \in OutcomesOf(cur), n \in -1..MaxMaps :
          \E ret \in InjReturns(IF step \in 1..Len(InjCalls) THEN step ELSE 1) :
              InjExit(ret, o, n)
    \/ \E why \in {"ESRCH", "EOTHER", "unexpected wait status"} :
          cur = RootTid /\ InjFail(why)
    \/ EnumSend
    \/ EnumDone
    \/ Observe
    \/ SendExecve
    \/ SendMap
    \/ AwaitGuard
    \/ \E o \in OutcomesOf(cur) : Resume(o)
    \/ \E t \in Tids : DetachedExit(t)
    \/ ConsumerRecv
    \/ ConsumerDrop

Spec == Init /\ [][Next]_vars

\* the steps the tracer thread takes by itself once a stop was reported to it
TracerStep ==
    \/ SendExit
    \/ NoMoreChildren
    \/ InjEnter
    \/ \E o \in OutcomesOf(cur), n \in -1..MaxMaps :
          \E ret \in InjReturns(IF step \in 1..Len(InjCalls) THEN step ELSE 1) :
              InjExit(ret, o, n)
    \/ EnumSend
    \/ EnumDone
    \/ Observe
    \/ SendExecve
    \/ SendMap
    \/ AwaitGuard
    \/ \E o \in OutcomesOf(cur) : Resume(o)

\* the tracer thread keeps running while it is not blocked, and the consumer
\* keeps receiving events and dropping them
FairSpec ==
    /\ Spec
    /\ WF_vars(TracerStep)
    /\ WF_vars(ConsumerRecv)
    /\ WF_vars(ConsumerDrop)

\* ------------------------------------------------------------------ claims
\* the Map events among evs
MapEvents(evs) == {evs[i] : i \in {j \in 1..Len(evs) : evs[j].kind = "Map"}}

\* C1: a region the syscall observer produced at a syscall-exit stop is sent as
\* a Map event with a token, and its tracee stays stopped from then until the
\* consumer has dropped the token: a live token means the supervisor is waiting
\* for it with that tracee stopped, and when the supervisor is about to resume
\* the tracee the event has been sent and the token is gone.
C1_MapAckedBeforeResume ==
    /\ pc \in {"send_map", "await_guard"} => kstate[cur] = "stopped"
    /\ \A t \in Guarded : pc = "await_guard" /\ cur = t /\ kstate[t] = "stopped"
    /\ pc = "resume" /\ mapped # NoMapped =>
          /\ Guarded = {}
          /\ \E i \in 1..Len(emitted) :
                emitted[i] = MapEvent(cur, mapped.range, mapped.resident, TRUE)

C1_Witness == pc = "await_guard" /\ held = cur /\ kstate[cur] = "stopped"

\* C2: every Map event that was sent and that the consumer has not taken yet
\* carries a completion token, and its tracee is stopped.
C2_EveryMapHasToken ==
    \A i \in 1..Len(tx) :
        tx[i].kind = "Map" => tx[i].guard /\ kstate[tx[i].tid] = "stopped"

\* C3: make_uffd runs at most once for a tracee between two of its Execve
\* events, and uffd goes from set to unset only in the execve | execveat arm of
\* on_sys_exit (or when the tracer dies and its registry with it).
C3_InjectorOncePerExecve ==
    /\ [](\A t \in Tids : injRuns[t] <= 1)
    /\ [][\A t \in Tids :
            tracees[t].uffd /\ ~tracees'[t].uffd =>
                \/ pc = "observe" /\ cur = t
                       /\ saved_regs.orig_rax \in {"execve", "execveat"}
                \/ pc' = "aborted"]_vars

C3_Witness ==
    /\ pc = "observe"
    /\ before.uffd
    /\ injRuns[cur] = 1
    /\ saved_regs.orig_rax \in {"mmap", "brk", "other"}

\* C4: when the Execve event of an execve/execveat exit is about to be sent the
\* tracee's heap_range is None and its uffd unset, they stay so until the
\* injector has run again, and of the tracee's following syscall exits the
\* first that is not of rseq, set_robust_list, rt_sigprocmask or execve starts
\* the injector while those four do not.
C4_ReinstallAfterExecve ==
    /\ [](pc = "send_execve" =>
             tracees[cur].heap_range = None /\ ~tracees[cur].uffd)
    /\ [](\A t \in Tids :
             execved[t] => tracees[t].heap_range = None /\ ~tracees[t].uffd)
    /\ [][\A t \in Tids :
            execved[t] /\ pc = "wait" /\ cur' = t /\ pc' \in {"inj_enter", "observe"} =>
                (pc' = "inj_enter" <=>
                    saved_regs'.orig_rax \notin
                        {"rseq", "set_robust_list", "rt_sigprocmask", "execve"})]_vars

C4_Witness == pc = "inj_exit" /\ step = 1 /\ execved[cur]

\* C5: no Map event in the channel has an empty or inverted range.
C5_NoEmptyRange ==
    \A i \in 1..Len(tx) : tx[i].kind = "Map" => tx[i].range[1] < tx[i].range[2]

\* a brk-growth region is about to be sent
BrkGrowthPending == pc = "send_map" /\ mapped.resident = "Resident"

IsBrk0(regs) == regs.orig_rax = "brk" /\ regs.rdi = 0

\* C7 (as claimed): at the end of the second of two consecutive brk(0) exits of
\* a tracee, no Map event was emitted at either and heap_range is as the first
\* left it.
C7_DoubleBrkQuiet ==
    pc = "resume" /\ IsBrk0(saved_regs) /\ prevBrk0[cur] # "no" =>
        /\ prevBrk0[cur] = "quiet"
        /\ MapEvents(emitted) = {}
        /\ tracees[cur].heap_range = before.heap_range

\* C7 (amended): a brk(0) exit sets heap_range to the returned break when it was
\* None and leaves it alone otherwise, and on_sys_exit returns no region; the
\* Map events emitted at it are those of the initial enumeration, without
\* token, and only when uffd was unset before it.  At the second of two
\* consecutive brk(0) exits uffd is set and heap_range known, so heap_range
\* does not change and no Map event is emitted.
C7_DoubleBrkOnlyEnumerates ==
    pc = "resume" /\ IsBrk0(saved_regs) =>
        /\ mapped = NoMapped
        /\ \A e \in MapEvents(emitted) : ~e.guard /\ ~before.uffd /\ injLog # <<>>
        /\ tracees[cur].heap_range =
              IF before.heap_range = None
              THEN <<saved_regs.rax, saved_regs.rax>>
              ELSE before.heap_range
        /\ prevBrk0[cur] # "no" =>
              /\ before.uffd
              /\ before.heap_range # None
              /\ MapEvents(emitted) = {}

C7_Witness == pc = "resume" /\ IsBrk0(saved_regs) /\ prevBrk0[cur] = "mapped"

\* the exit of an mmap that is not anonymous or has an address hint
NotAnonMmap(regs) ==
    regs.orig_rax = "mmap" /\ (AsI32(regs.r8) # -1 \/ regs.rdi # 0)

\* C8 (as claimed): at the end of an mmap exit with fd other than -1 or a
\* non-zero addr no Map event was emitted.
C8_FileMmapQuiet ==
    pc = "resume" /\ NotAnonMmap(saved_regs) => MapEvents(emitted) = {}

\* C8 (amended): at such an exit on_sys_exit returns no region, so no Map event
\* with a token is sent; the Map events emitted are those of the initial
\* enumeration, and there are none when uffd was set before the exit.
C8_FileMmapOnlyEnumerates ==
    NotAnonMmap(saved_regs) =>
        /\ pc \notin {"send_map", "await_guard"}
        /\ mapped = NoMapped
        /\ \A e \in MapEvents(emitted) : ~e.guard /\ ~before.uffd /\ injLog # <<>>
        /\ before.uffd => MapEvents(emitted) = {}

C8_Witness ==
    pc = "resume" /\ NotAnonMmap(saved_regs) /\ MapEvents(emitted) # {}

C10_InjectorLeavesNoTrace ==
    pc = "enum" => kregs = saved_regs /\ ~stagingMapped

\* the order in which a handoff issues its syscalls
HandoffOrder == <<"mmap", "userfaultfd", "ioctl", "socket", "connect", "write",
                  "sendmsg", "close", "close", "munmap">>

\* C11: while make_uffd runs, the injected syscalls issued so far are the first
\* ones of mmap, userfaultfd, ioctl, socket, connect, write, sendmsg, close,
\* close, munmap, in this order, the write passes 8 bytes, the first close is
\* of sock_fd and the second of raw_uffd, and uffd is still unset; when
\* make_uffd has put the registers back all ten were issued, and uffd is set
\* by no step but the one that ends such a run.
C11_HandoffOrder ==
    /\ [](pc \in {"inj_enter", "inj_exit"} =>
            /\ ~tracees[cur].uffd
            /\ Len(injLog) = (IF pc = "inj_enter" THEN step - 1 ELSE step)
            /\ injLog = SubSeq(HandoffOrder, 1, Len(injLog))
            /\ pc = "inj_exit" /\ step = 6 => kregs.rdi = loc.sock_fd /\ kregs.rdx = 8
            /\ pc = "inj_exit" /\ step = 7 => kregs.rdi = loc.sock_fd
            /\ pc = "inj_exit" /\ step = 8 => kregs.rdi = loc.sock_fd
            /\ pc = "inj_exit" /\ step = 9 => kregs.rdi = loc.raw_uffd)
    /\ [](pc = "enum" => injLog = HandoffOrder /\ tracees[cur].uffd)
    /\ [][\A t \in Tids :
            ~tracees[t].uffd /\ tracees'[t].uffd =>
                pc = "inj_exit" /\ cur = t /\ injLog = HandoffOrder /\ pc' = "enum"]_vars

C11_Witness == pc = "enum" /\ injLog = HandoffOrder /\ tracees[cur].uffd

\* C12: the tracer never aborts because a ptrace request returned ESRCH.
C12_EsrchSwallowed == ~(pc = "aborted" /\ err.why = "ESRCH")

\* a syscall return value that is negative as a signed machine word
IsNegative(ret) == ret >= 2^(WordBits - 1)

\* C13: make_uffd does not go on to another injected syscall after one that
\* returned a negative value.
C13_InjectedFailureFatal ==
    pc = "inj_enter" /\ step > 1 => ~IsNegative(kregs.rax)

\* C14: the supervisor loop is never back at its wait with a tracee still
\* stopped, which is how a resume that failed with an error other than ESRCH
\* leaves it.
C14_ResumeErrorAborts ==
    pc = "wait" => \A t \in Tids : kstate[t] # "stopped"

\* C15: once the Exit event of a tracee that was reaped has been sent, the
\* registry holds no entry for its id.
C15_ExitForgetsTracee ==
    \A t \in Tids :
        kstate[t] \in {"unborn", "reaped"} /\ ~(pc = "send_exit" /\ cur = t) =>
            ~tracees[t].known

\* no tracee is left: each was reaped or never existed
AllGone == \A t \in Tids : kstate[t] \in {"unborn", "reaped"}

\* C16 (as claimed): the loop has ended cleanly only with no tracee left, and
\* if from some time on no tracee is left then the loop eventually ends
\* cleanly.
C16_CleanExitWhenAllGone ==
    /\ [](pc = "exited" => AllGone)
    /\ (<>[]AllGone => <>(pc = "exited"))

\* C16 (amended): the loop ends cleanly only from its wait and with no tracee
\* left; every tracee the tracer sees exit gets its Exit event before the
\* loop waits again; and if from some time on no tracee is left, the tracer
\* eventually has ended cleanly or has aborted on a fatal error.
C16_CleanExitOrAbort ==
    /\ [](pc = "exited" => AllGone)
    /\ [][pc # "exited" /\ pc' = "exited" => pc = "wait" /\ AllGone]_vars
    /\ [][\A t \in Tids :
            /\ pc # "aborted"
            /\ kstate[t] \notin {"unborn", "reaped"}
            /\ kstate'[t] \in {"unborn", "reaped"}
            => pc' = "send_exit" /\ cur' = t]_vars
    /\ [][pc = "send_exit" /\ pc' # "send_exit" =>
            tx' = Append(tx, ExitEvent(cur)) /\ pc' = "wait"]_vars
    /\ (<>[]AllGone => <>(pc \in {"exited", "aborted"}))

C16_Witness ==
    pc = "exited" /\ kstate[RootTid] = "reaped" /\ tx = <<>> /\ held = 0

\* C17: an Execve event is sent only at the exit of an execve or execveat that
\* did not fail.
C17_ExecveOnlyOnSuccess ==
    pc = "send_execve" => ~IsNegative(saved_regs.rax)

\* the stop being handled is the exit of an execve or execveat
IsExecveExit == saved_regs.orig_rax \in {"execve", "execveat"}

\* C18 (as claimed): at the end of the handling of an execve or execveat exit
\* an Execve event and no Map event was emitted.
C18_ExecveExitNoMap ==
    pc = "resume" /\ IsExecveExit =>
        /\ \E i \in 1..Len(emitted) : emitted[i] = ExecveEvent(cur)
        /\ MapEvents(emitted) = {}

\* C18 (amended): at an execve or execveat exit on_sys_exit returns no region;
\* when its handling ends, exactly one Execve event was emitted, as the last
\* event; at an execve exit it is the only event; the Map events emitted
\* before it at an execveat exit are those of the initial enumeration, without
\* token, and only when uffd was unset before the exit.
C18_ExecveExitOnlyEnumerates ==
    IsExecveExit =>
        /\ pc \notin {"send_map", "await_guard"}
        /\ mapped = NoMapped
        /\ pc = "resume" =>
              /\ emitted # <<>>
              /\ emitted[Len(emitted)] = ExecveEvent(cur)
              /\ \A i \in 1..(Len(emitted) - 1) :
                    /\ emitted[i].kind = "Map"
                    /\ ~emitted[i].guard
                    /\ ~before.uffd
                    /\ saved_regs.orig_rax = "execveat"
              /\ before.uffd => emitted = <<ExecveEvent(cur)>>

C18_Witness ==
    pc = "resume" /\ saved_regs.orig_rax = "execveat" /\ MapEvents(emitted) # {}

\* the handling of a brk exit has ended and the tracee is about to be resumed
BrkExitDone == pc = "resume" /\ saved_regs.orig_rax = "brk"

\* C19 (as claimed): at the end of a brk exit with argument arg and return
\* value new, heap_range having been old before it: with arg # 0 and old known
\* the heap top is new and the events emitted are the one Resident Map event
\* from the old top to new if new is above the old top, none otherwise; with
\* arg # 0 and old unknown nothing was emitted and it is still unknown; with
\* arg = 0 it is new..new if it was unknown and old otherwise.
C19_BrkExit ==
    BrkExitDone =>
        LET old == before.heap_range
            new == saved_regs.rax
        IN  IF saved_regs.rdi = 0
            THEN tracees[cur].heap_range = (IF old = None THEN <<new, new>> ELSE old)
            ELSE IF old = None
            THEN emitted = <<>> /\ tracees[cur].heap_range = None
            ELSE /\ tracees[cur].heap_range = <<old[1], new>>
                 /\ emitted = (IF new > old[2]
                               THEN << MapEvent(cur, <<old[2], new>>, "Resident", TRUE) >>
                               ELSE <<>>)

\* C19 (amended): as claimed, except that with arg # 0 and old unknown it is
\* on_sys_exit that returns no region: no Map event with a token is sent, and
\* any Map event emitted at the exit is one of the initial enumeration, sent
\* only when uffd was unset before the exit.  A known heap_range implies a set
\* uffd, which is why the other cases emit nothing else.
C19_BrkExitObserver ==
    /\ \A t \in Tids : tracees[t].heap_range # None => tracees[t].uffd
    /\ BrkExitDone =>
        LET old == before.heap_range
            new == saved_regs.rax
        IN  IF saved_regs.rdi = 0
            THEN /\ tracees[cur].heap_range = (IF old = None THEN <<new, new>> ELSE old)
                 /\ mapped = NoMapped
            ELSE IF old = None
            THEN /\ mapped = NoMapped
                 /\ tracees[cur].heap_range = None
                 /\ \A i \in 1..Len(emitted) :
                       /\ emitted[i].kind = "Map"
                       /\ ~emitted[i].guard
                       /\ ~before.uffd
                 /\ before.uffd => emitted = <<>>
            ELSE /\ tracees[cur].heap_range = <<old[1], new>>
                 /\ emitted = (IF new > old[2]
                               THEN << MapEvent(cur, <<old[2], new>>, "Resident", TRUE) >>
                               ELSE <<>>)

C19_Witness ==
    /\ BrkExitDone
    /\ saved_regs.rdi # 0
    /\ before.heap_range # None
    /\ saved_regs.rax > before.heap_range[2]
    /\ Len(emitted) = 1

\* the stop being handled is the exit of an mmap with fd -1 and addr 0
AnonMmapExit ==
    saved_regs.orig_rax = "mmap" /\ AsI32(saved_regs.r8) = -1 /\ saved_regs.rdi = 0

C21_SignalAndEventStops ==
    /\ [](stop_sig # "" =>
            resume_sig = (IF stop_sig \in {"SIGTRAP", "SIGSTOP"}
                          THEN "None" ELSE stop_sig))
    /\ [][stop_sig' # "" /\ pc = "wait" /\ pc' = "wait" =>
            /\ tracees' = tracees
            /\ Len(tx') <= Len(tx)
            /\ kstate' = kstate
            /\ kphase' = kphase]_vars
    /\ [][\A c \in Tids :
            kstate[c] = "unborn" /\ kstate'[c] = "running" =>
                /\ tracees' = tracees
                /\ Len(tx') <= Len(tx)
                /\ resume_sig' = "None"
                /\ pc' = "wait"]_vars

C21_Witness ==
    /\ stop_sig = "SIGUSR1"
    /\ resume_sig = "SIGUSR1"
    /\ tracees[RootTid].uffd
    /\ tracees[RootTid].heap_range # None
    /\ kstate[RootTid] = "running"

====
